---- MODULE Spec2Model ----
(***************************************************************************)
(* A model of the search-and-fetch pipeline of src/web_search.py:          *)
(*   fetch_url_content           one URL, retry with a fixed delay          *)
(*   fetch_all_url_contents      the fetch tasks under an asyncio.Semaphore *)
(*   brave_search_with_content   the provider request loop with backoff     *)
(*   fetch_documentation_for_llm the two-phase truncation and the artifact  *)
(* A text is modelled by its length: the operations on texts used by the    *)
(* code (len, a prefix slice, appending the truncation marker) are          *)
(* functions of lengths.  A text returned by fetch_url_content has no       *)
(* leading or trailing whitespace (lines 155-159 strip every chunk and drop *)
(* the empty ones), so content.strip() on line 488 keeps its length.        *)
(***************************************************************************)
EXTENDS Integers, Sequences, FiniteSets, TLC

\* ---------------------------------------------------------------- bounds
MaxUrls == 2        \* URLs in one call of fetch_all_url_contents
MaxK == 2           \* concurrency_limit values tried: 1..MaxK
MaxRetry == 2       \* retry_count values tried: 0..MaxRetry
MaxDelay == 2       \* retry_delay values tried: 1..MaxDelay
MaxResults == 1     \* results in a provider response: 0..MaxResults
MaxSources == 3     \* fetched sources handed to fetch_documentation_for_llm
MaxListing == 2     \* results in a response handed to format_search_results
MaxLabels == 2      \* labels of the issue in a webhook payload

\* ------------------------------------------------------ program constants
FetchRetryCount == 2   \* fetch_url_content(url, session): retry_count default
FetchDelay == 1        \* fetch_url_content(url, session): delay default
MarkerLen == 23        \* len("... [content truncated]")
MinAllocation == 1000  \* "At least 1000 chars per source"
MaxCount == 20         \* count = min(count, 20)

\* Optional[str]: None, or a text of a given length.
None == <<>>
Some(len) == <<len>>
TextLen(c) == c[1]
\* Python truthiness of an Optional[str]: None and "" are falsy.
NotNone(c) == c # <<>>
Truthy(c) == c # <<>> /\ c[1] > 0

\* Lengths of the texts a page can yield (0: a page without visible text).
FetchedLens == {0, 500, 1500}

VARIABLES
    \* ---- fetch_all_url_contents
    fpc,            \* "idle" | "running" | "returned"
    urls,           \* the list of URLs passed in
    concurrency_limit,
    semaphore,      \* asyncio.Semaphore: the permits left
    f_retry_count,  \* the retry_count fetch_url_content runs with
    f_delay,        \* the delay fetch_url_content runs with
    tpc,            \* per task: "acquire" | "get" | "retry_sleep" | "delay" | "done"
                    \* | "raised" (an exception left fetch_url_content)
    f_attempt,      \* per task: the loop variable of fetch_url_content
    f_sleeps,       \* per task: the durations fetch_url_content slept, in order
    content,        \* per task: the local of fetch_with_semaphore
    url_contents,   \* the shared dict, as the list of its items in insertion order
    writers,        \* the tasks that executed the assignment of line 192
    f_outcomes,     \* how each attempt of a single fetch_url_content call ended
    \* ---- brave_search_with_content
    spc,            \* "idle" | "start" | "loop" | "await" | "backoff" | "fetching" | "done"
    api_key,        \* whether BRAVE_SEARCH_API_KEY is set
    count,          \* the count argument
    retry_count,
    retry_delay,
    fetch_content,
    params_count,   \* params["count"]
    sent,           \* the count parameter of each provider request, in order
    attempt,        \* the loop variable of lines 254-314
    requests,       \* provider requests issued (session.get of line 259)
    sleeps,         \* the durations slept between attempts, in order
    parses,         \* calls of response.json() (line 275)
    responses,      \* what the provider answered, in order
    result,         \* "pending" | "none" | "listing" | "empty_listing" | "listing_map"
                    \* | "raised" (KeyError) | "config_error" (the ValueError of line 234)
    \* ---- fetch_documentation_for_llm, from line 440 on
    dpc,            \* "idle" | "start" | "phase1" | "check" | "phase2" | "format" | "done"
                    \* | "raised" (the exception of the search reached the caller)
    url_content,    \* the dict brave_search_with_content returned
    max_content_length,
    max_total_length,
    sorted_urls,    \* the items of url_content, longest text first
    idx,            \* the position in sorted_urls the running loop is at
    truncated_content,      \* dict url -> final text, a text being [taken, marker]
    new_truncated_content,  \* the dict Phase 2 fills
    allocated,      \* dict url -> the allocated_length Phase 2 computed for it
    total_content_length,
    sources,        \* list of [url, content_length, truncated]
    phase2,         \* whether the branch of line 509 was taken
    formatted_content,      \* [blocks, summary] once rendered
    \* ---- format_search_results and the re-parse of lines 451-470, 485
    lpc,            \* "idle" | "format" | "again" | "parse" | "titles" | "done" | "raised"
    response,       \* the provider data handed to format_search_results
    include_content,
    search_results, \* the markdown listing, as the list of its lines
    search_result_objects,  \* the objects lines 452-470 rebuild from the listing
    titles,         \* url -> the title lines 485 and 551 resolve for it
    \* ---- handle_webhook (app.py) and has_codegen_label (helpers.py)
    wpc,            \* "idle" | "recv" | "token" | "repo" | "branch" | "agent" | "status"
                    \* | "reset" | "replied"
    event,          \* the webhook payload
    labelled,       \* what has_codegen_label returned
    reply,          \* the status of the handler's answer, "none" before it
    on_branch,      \* a branch for the issue was created or checked out
    agent_started,  \* agent.run was called
    resets          \* calls of codebase.reset()

wvars == <<wpc, event, labelled, reply, on_branch, agent_started, resets>>
lvars == <<lpc, response, include_content, search_results, search_result_objects, titles>>
docvars == <<dpc, url_content, max_content_length, max_total_length, sorted_urls, idx,
             truncated_content, new_truncated_content, allocated, total_content_length,
             sources, phase2, formatted_content>>
dvars == <<docvars, lvars, wvars>>
fvars == <<fpc, urls, concurrency_limit, f_retry_count, f_delay, semaphore, tpc, f_attempt,
           f_sleeps, content, url_contents, writers, f_outcomes>>
\* The arguments and the environment of brave_search_with_content.
sargs == <<api_key, count, retry_count, retry_delay, fetch_content>>
svars == <<spc, sargs, params_count, sent, attempt, requests, sleeps, parses, responses,
           result>>
vars == <<fvars, svars, dvars>>

Tasks == DOMAIN urls

Min(a, b) == IF a < b THEN a ELSE b
Max(a, b) == IF a > b THEN a ELSE b

\* ------------------------------------------------------------ dict helpers
\* A dict is the sequence of its items [url, text] in insertion order.
HasKey(d, u) == \E i \in DOMAIN d : d[i].url = u
Keys(d) == {d[i].url : i \in DOMAIN d}
\* d[u] = v: an existing key keeps its place, a new key goes last.
DictSet(d, u, v) ==
    IF HasKey(d, u)
    THEN [i \in DOMAIN d |-> IF d[i].url = u THEN [url |-> u, text |-> v] ELSE d[i]]
    ELSE Append(d, [url |-> u, text |-> v])

\* --------------------------------------------------- fetch_with_semaphore
\* async with semaphore: the task takes a permit, or waits while none is left.
\* gather starts the tasks in list order and the semaphore wakes its waiters
\* first come first served, so a task acquires only after the tasks before it.
CanAcquireAny(t) == TRUE
CanAcquire(t) == semaphore > 0 /\ \A x \in Tasks : x < t => tpc[x] # "acquire"

Acquire(t) ==
    /\ fpc = "running"
    /\ tpc[t] = "acquire"
    /\ CanAcquire(t)
    /\ semaphore' = semaphore - 1
    /\ tpc' = [tpc EXCEPT ![t] = "get"]
    /\ f_attempt' = [f_attempt EXCEPT ![t] = 0]
    /\ UNCHANGED <<fpc, urls, concurrency_limit, f_retry_count, f_delay, f_sleeps, content,
                   url_contents, writers, svars, dvars>>

\* The sleep of line 193 taken only after a fetch that produced content.
ReturnedSleepIfContent(t, c) ==
    /\ content' = [content EXCEPT ![t] = c]
    /\ url_contents' = IF Truthy(c) THEN DictSet(url_contents, urls[t], TextLen(c))
                       ELSE url_contents
    /\ writers' = IF Truthy(c) THEN writers \cup {t} ELSE writers
    /\ tpc' = [tpc EXCEPT ![t] = IF Truthy(c) THEN "delay" ELSE "done"]
    /\ semaphore' = IF Truthy(c) THEN semaphore ELSE semaphore + 1
    /\ UNCHANGED <<fpc, urls, concurrency_limit, f_retry_count, f_delay, f_attempt, f_sleeps,
                   svars, dvars>>

\* fetch_url_content has returned c: lines 190-193 up to the sleep.
Returned(t, c) ==
    /\ content' = [content EXCEPT ![t] = c]
    /\ url_contents' = IF Truthy(c) THEN DictSet(url_contents, urls[t], TextLen(c))
                       ELSE url_contents
    /\ writers' = IF Truthy(c) THEN writers \cup {t} ELSE writers
    /\ tpc' = [tpc EXCEPT ![t] = "delay"]
    /\ UNCHANGED <<fpc, urls, concurrency_limit, f_retry_count, f_delay, semaphore, f_attempt,
                   f_sleeps, svars, dvars>>

\* A failed attempt: sleep and try again while attempts are left, else None.
FailedAttemptOneFewer(t) ==
    IF f_attempt[t] + 1 < f_retry_count
    THEN /\ tpc' = [tpc EXCEPT ![t] = "retry_sleep"]
         /\ f_sleeps' = [f_sleeps EXCEPT ![t] = Append(@, f_delay)]
         /\ UNCHANGED <<fpc, urls, concurrency_limit, f_retry_count, f_delay, semaphore,
                        f_attempt, content, url_contents, writers, svars, dvars>>
    ELSE Returned(t, None)
FailedAttempt(t) ==
    IF f_attempt[t] < f_retry_count
    THEN /\ tpc' = [tpc EXCEPT ![t] = "retry_sleep"]
         /\ f_sleeps' = [f_sleeps EXCEPT ![t] = Append(@, f_delay)]
         /\ UNCHANGED <<fpc, urls, concurrency_limit, f_retry_count, f_delay, semaphore,
                        f_attempt, content, url_contents, writers, svars, dvars>>
    ELSE Returned(t, None)

\* The response is not ok (lines 126-132).
FetchNotOk(t) ==
    /\ fpc = "running"
    /\ tpc[t] = "get"
    /\ FailedAttempt(t)

\* What the request, the read of the body or the parse can raise:
\* aiohttp.ClientError, asyncio.TimeoutError, an error of the HTML parser.
ExceptionKinds == {"client", "timeout", "parse"}

\* except Exception (line 164) takes every one of them.
CaughtClientErrorOnly(kind) == kind = "client"
Caught(kind) == TRUE

\* An exception leaves fetch_url_content: the with block of line 189 gives
\* the permit back and the task ends with the exception.
Raised(t) ==
    /\ tpc' = [tpc EXCEPT ![t] = "raised"]
    /\ semaphore' = semaphore + 1
    /\ UNCHANGED <<fpc, urls, concurrency_limit, f_retry_count, f_delay, f_attempt, f_sleeps,
                   content, url_contents, writers, svars, dvars>>

\* The request, the read or the parse raises (lines 164-170).
FetchException(t) ==
    /\ fpc = "running"
    /\ tpc[t] = "get"
    /\ \E kind \in ExceptionKinds :
          IF Caught(kind) THEN FailedAttempt(t) ELSE Raised(t)

\* The content type is neither HTML nor XHTML (lines 134-137).
FetchNonHtmlRetried(t) ==
    /\ fpc = "running"
    /\ tpc[t] = "get"
    /\ FailedAttempt(t)
FetchNonHtml(t) ==
    /\ fpc = "running"
    /\ tpc[t] = "get"
    /\ Returned(t, None)

\* The page is read and its text extracted (lines 139-162).
FetchText(t) ==
    /\ fpc = "running"
    /\ tpc[t] = "get"
    /\ \E len \in FetchedLens : Returned(t, Some(len))

\* asyncio.sleep(delay) of fetch_url_content ends: the next attempt starts.
RetryWake(t) ==
    /\ fpc = "running"
    /\ tpc[t] = "retry_sleep"
    /\ f_attempt' = [f_attempt EXCEPT ![t] = @ + 1]
    /\ tpc' = [tpc EXCEPT ![t] = "get"]
    /\ UNCHANGED <<fpc, urls, concurrency_limit, f_retry_count, f_delay, semaphore, f_sleeps,
                   content, url_contents, writers, svars, dvars>>

\* asyncio.sleep(delay_between_requests) ends and the with block releases.
\* content keeps what the fetch returned.
DelayDoneKeepingPermit(t) ==
    /\ fpc = "running"
    /\ tpc[t] = "delay"
    /\ tpc' = [tpc EXCEPT ![t] = "done"]
    /\ UNCHANGED <<fpc, urls, concurrency_limit, f_retry_count, f_delay, f_attempt, f_sleeps,
                   semaphore, content, url_contents, writers, svars, dvars>>
DelayDone(t) ==
    /\ fpc = "running"
    /\ tpc[t] = "delay"
    /\ semaphore' = semaphore + 1
    /\ tpc' = [tpc EXCEPT ![t] = "done"]
    /\ UNCHANGED <<fpc, urls, concurrency_limit, f_retry_count, f_delay, f_attempt, f_sleeps,
                   content, url_contents, writers, svars, dvars>>

\* asyncio.gather returns once every task is done (lines 199-201).
GatherDoneFirstCompleted ==
    /\ fpc = "running"
    /\ \E t \in Tasks : tpc[t] = "done"
    /\ fpc' = "returned"
    /\ UNCHANGED <<urls, concurrency_limit, f_retry_count, f_delay, semaphore, tpc, f_attempt,
                   f_sleeps, content, url_contents, writers, f_outcomes>>
GatherDone ==
    /\ fpc = "running"
    /\ \A t \in Tasks : tpc[t] = "done"
    /\ fpc' = "returned"
    /\ UNCHANGED <<urls, concurrency_limit, f_retry_count, f_delay, semaphore, tpc, f_attempt,
                   f_sleeps, content, url_contents, writers, f_outcomes>>

\* fetch_all_url_contents called on its own.
GatherReturn ==
    /\ spc = "idle"
    /\ GatherDone
    /\ UNCHANGED <<svars, dvars>>

\* The state right after lines 185-196 for the list us and the limit k.
FetchCall(us, k) ==
    /\ fpc' = "running"
    /\ urls' = us
    /\ semaphore' = k
    /\ tpc' = [t \in DOMAIN us |-> "acquire"]
    /\ f_retry_count' = FetchRetryCount
    /\ f_delay' = FetchDelay
    /\ f_attempt' = [t \in DOMAIN us |-> 0]
    /\ f_sleeps' = [t \in DOMAIN us |-> <<>>]
    /\ content' = [t \in DOMAIN us |-> None]
    /\ url_contents' = <<>>
    /\ writers' = {}
    /\ f_outcomes' = <<>>

\* fetch_documentation_for_llm is not running.
DocIdle ==
    /\ dpc = "idle"
    /\ url_content = <<>>
    /\ max_content_length = 0
    /\ max_total_length = 0
    /\ sorted_urls = <<>>
    /\ idx = 0
    /\ truncated_content = <<>>
    /\ new_truncated_content = <<>>
    /\ allocated = <<>>
    /\ total_content_length = 0
    /\ sources = <<>>
    /\ phase2 = FALSE
    /\ formatted_content = <<>>

\* Nothing is being rendered or re-parsed.
ListingIdle ==
    /\ lpc = "idle"
    /\ response = <<>>
    /\ include_content = FALSE
    /\ search_results = <<>>
    /\ search_result_objects = <<>>
    /\ titles = <<>>

\* No webhook is being handled.
WebhookIdle ==
    /\ wpc = "idle"
    /\ event = <<>>
    /\ labelled = FALSE
    /\ reply = "none"
    /\ on_branch = FALSE
    /\ agent_started = FALSE
    /\ resets = 0

\* No search is in progress.
SearchIdle ==
    /\ spc = "idle"
    /\ api_key = FALSE
    /\ count = 0
    /\ params_count = 0
    /\ sent = <<>>
    /\ retry_count = 0
    /\ retry_delay = 0
    /\ fetch_content = FALSE
    /\ attempt = 0
    /\ requests = 0
    /\ sleeps = <<>>
    /\ parses = 0
    /\ responses = <<>>
    /\ result = "pending"

\* The URL lists of up to n entries: pairwise distinct URLs, and lists whose
\* last entry repeats the first (line 282 takes the URLs as the provider
\* lists them).
UrlListsUpTo(n) ==
    {[i \in 1..m |-> i] : m \in 0..n}
        \cup {[i \in 1..m |-> IF i = m THEN 1 ELSE i] : m \in 2..n}

UrlLists == UrlListsUpTo(MaxUrls)

FetchIdle ==
    /\ fpc = "idle"
    /\ urls = <<>>
    /\ semaphore = 0
    /\ f_retry_count = 0
    /\ f_delay = 0
    /\ tpc = <<>>
    /\ f_attempt = <<>>
    /\ f_sleeps = <<>>
    /\ content = <<>>
    /\ url_contents = <<>>
    /\ writers = {}
    /\ f_outcomes = <<>>

InitFetch ==
    /\ fpc = "running"
    /\ urls \in UrlLists
    /\ concurrency_limit \in 1..MaxK
    /\ f_retry_count = FetchRetryCount
    /\ f_delay = FetchDelay
    /\ semaphore = concurrency_limit
    /\ tpc = [t \in DOMAIN urls |-> "acquire"]
    /\ f_attempt = [t \in DOMAIN urls |-> 0]
    /\ f_sleeps = [t \in DOMAIN urls |-> <<>>]
    /\ content = [t \in DOMAIN urls |-> None]
    /\ url_contents = <<>>
    /\ writers = {}
    /\ f_outcomes = <<>>
    /\ SearchIdle
    /\ DocIdle
    /\ ListingIdle
    /\ WebhookIdle

\* A step of some task of the batch.
AcquireStep == UNCHANGED f_outcomes /\ \E t \in Tasks : Acquire(t)
FetchNotOkStep == UNCHANGED f_outcomes /\ \E t \in Tasks : FetchNotOk(t)
FetchExceptionStep == UNCHANGED f_outcomes /\ \E t \in Tasks : FetchException(t)
FetchNonHtmlStep == UNCHANGED f_outcomes /\ \E t \in Tasks : FetchNonHtml(t)
FetchTextStep == UNCHANGED f_outcomes /\ \E t \in Tasks : FetchText(t)
RetryWakeStep == UNCHANGED f_outcomes /\ \E t \in Tasks : RetryWake(t)
DelayDoneStep == UNCHANGED f_outcomes /\ \E t \in Tasks : DelayDone(t)

TaskStep ==
    \/ AcquireStep
    \/ FetchNotOkStep
    \/ FetchExceptionStep
    \/ FetchNonHtmlStep
    \/ FetchTextStep
    \/ RetryWakeStep
    \/ DelayDoneStep

NextFetch == TaskStep \/ GatherReturn

SpecFetch == InitFetch /\ [][NextFetch]_vars

\* The steps of the task t of the batch.
TaskOf(t) ==
    /\ t \in Tasks
    /\ UNCHANGED f_outcomes
    /\ \/ Acquire(t)
       \/ FetchNotOk(t)
       \/ FetchException(t)
       \/ FetchNonHtml(t)
       \/ FetchText(t)
       \/ RetryWake(t)
       \/ DelayDone(t)

\* The event loop runs every task that is ready, every request and every
\* sleep ends, and gather resumes its caller once the tasks are done.
FairFetch ==
    /\ \A t \in 1..MaxUrls : WF_vars(TaskOf(t))
    /\ WF_vars(GatherReturn)

SpecFetchFair == SpecFetch /\ FairFetch

\* ------------------------------------------- one call of fetch_url_content
\* fetch_url_content(url, session, retry_count, delay) for every retry_count
\* and delay, run as the only task of a batch; f_outcomes records how each
\* attempt ended.
InitFetchOne ==
    /\ fpc = "running"
    /\ urls = <<1>>
    /\ concurrency_limit = 1
    /\ f_retry_count \in 0..MaxRetry
    /\ f_delay \in 1..MaxDelay
    /\ semaphore = concurrency_limit
    /\ tpc = [t \in DOMAIN urls |-> "acquire"]
    /\ f_attempt = [t \in DOMAIN urls |-> 0]
    /\ f_sleeps = [t \in DOMAIN urls |-> <<>>]
    /\ content = [t \in DOMAIN urls |-> None]
    /\ url_contents = <<>>
    /\ writers = {}
    /\ f_outcomes = <<>>
    /\ SearchIdle
    /\ DocIdle
    /\ ListingIdle
    /\ WebhookIdle

Outcome(kind) == f_outcomes' = Append(f_outcomes, kind)

OneNotOk == Outcome("not_ok") /\ \E t \in Tasks : FetchNotOk(t)
OneException == Outcome("exception") /\ \E t \in Tasks : FetchException(t)
OneNonHtml == Outcome("non_html") /\ \E t \in Tasks : FetchNonHtml(t)
OneText == Outcome("text") /\ \E t \in Tasks : FetchText(t)

NextFetchOne ==
    \/ AcquireStep
    \/ OneNotOk
    \/ OneException
    \/ OneNonHtml
    \/ OneText
    \/ RetryWakeStep
    \/ DelayDoneStep
    \/ GatherReturn

SpecFetchOne == InitFetchOne /\ [][NextFetchOne]_vars

\* ----------------------------------------------- brave_search_with_content
\* wait_time = retry_delay * (attempt + 1), lines 267 and 310.
WaitTimeConstant(a) == retry_delay
WaitTimeZeroBased(a) == retry_delay * a
WaitTime(a) == retry_delay * (a + 1)

\* Lines 232-233: the credential is read from the environment.
CredentialMissingNever == FALSE
CredentialMissing == ~api_key

\* Line 244.
UnclampedCount(c) == c
ClampedCount(c) == Min(c, MaxCount)

\* Lines 232-252: without the credential the call raises ValueError, else the
\* request parameters are built, once, before the loop.
SearchStart ==
    /\ spc = "start"
    /\ IF CredentialMissing
       THEN /\ spc' = "done"
            /\ result' = "config_error"
            /\ UNCHANGED params_count
       ELSE /\ spc' = "loop"
            /\ params_count' = ClampedCount(count)
            /\ UNCHANGED result
    /\ UNCHANGED <<sargs, sent, attempt, requests, sleeps, parses, responses, fvars, dvars>>

\* The call ends with outcome r.
SearchReturn(r) ==
    /\ spc' = "done"
    /\ result' = r
    /\ UNCHANGED <<sleeps, attempt>>

\* Attempts are left: sleep wait_time, then the next iteration.
RetryAllowed == attempt < retry_count

Backoff ==
    /\ sleeps' = Append(sleeps, WaitTime(attempt))
    /\ spc' = "backoff"
    /\ UNCHANGED <<attempt, result>>

\* One iteration of the loop of line 254 issues the request of line 259.
SearchRequest ==
    /\ spc = "loop"
    /\ attempt < retry_count + 1
    /\ requests' = requests + 1
    /\ sent' = Append(sent, params_count)
    /\ spc' = "await"
    /\ UNCHANGED <<sargs, params_count, attempt, sleeps, parses, responses, result,
                   fvars, dvars>>

\* Status 429 (lines 265-272).
RespRateLimited ==
    /\ spc = "await"
    /\ responses' = Append(responses, "429")
    /\ IF RetryAllowed THEN Backoff ELSE SearchReturn("none")
    /\ UNCHANGED <<sargs, params_count, sent, requests, parses, fvars, dvars>>

\* Any other status that is not ok (lines 260-262, 272).
RespErrorRetried ==
    /\ spc = "await"
    /\ responses' = Append(responses, "error")
    /\ IF RetryAllowed THEN Backoff ELSE SearchReturn("none")
    /\ UNCHANGED <<sargs, params_count, sent, requests, parses, fvars, dvars>>
RespError ==
    /\ spc = "await"
    /\ responses' = Append(responses, "error")
    /\ SearchReturn("none")
    /\ UNCHANGED <<sargs, params_count, sent, requests, parses, fvars, dvars>>

\* The request raises aiohttp.ClientError (lines 307-314).
RespClientErrorNotRetried ==
    /\ spc = "await"
    /\ responses' = Append(responses, "client_error")
    /\ SearchReturn("none")
    /\ UNCHANGED <<sargs, params_count, sent, requests, parses, fvars, dvars>>
RespClientError ==
    /\ spc = "await"
    /\ responses' = Append(responses, "client_error")
    /\ IF RetryAllowed THEN Backoff ELSE SearchReturn("none")
    /\ UNCHANGED <<sargs, params_count, sent, requests, parses, fvars, dvars>>

\* Status ok, and response.json() raises aiohttp.ClientError (ContentTypeError,
\* ClientPayloadError): not a ValueError, so the handler of line 307 takes it.
RespOkBodyError ==
    /\ spc = "await"
    /\ responses' = Append(responses, "ok_body_error")
    /\ parses' = parses + 1
    /\ IF RetryAllowed THEN Backoff ELSE SearchReturn("none")
    /\ UNCHANGED <<sargs, params_count, sent, requests, fvars, dvars>>

\* Status ok, and response.json() raises ValueError (lines 301-305).
RespOkUndecodable ==
    /\ spc = "await"
    /\ responses' = Append(responses, "ok_undecodable")
    /\ parses' = parses + 1
    /\ SearchReturn("none")
    /\ UNCHANGED <<sargs, params_count, sent, requests, fvars, dvars>>

\* Status ok and a decoded body without web.results: format_search_results
\* returns "" (line 103) when no content is wanted, else line 282 raises
\* KeyError, which neither handler takes.
RespOkNoResults ==
    /\ spc = "await"
    /\ responses' = Append(responses, "ok_no_results")
    /\ parses' = parses + 1
    /\ SearchReturn(IF fetch_content THEN "raised" ELSE "empty_listing")
    /\ UNCHANGED <<sargs, params_count, sent, requests, fvars, dvars>>

\* Status ok and a body with m results, fetch_content false (lines 278-279).
RespOkListing ==
    /\ spc = "await"
    /\ ~fetch_content
    /\ responses' = Append(responses, "ok")
    /\ parses' = parses + 1
    /\ SearchReturn("listing")
    /\ UNCHANGED <<sargs, params_count, sent, requests, fvars, dvars>>

\* Status ok and a body with m results, fetch_content true: lines 282-291
\* start fetch_all_url_contents on the results' URLs.
RespOkFetchOf(lists) ==
    /\ spc = "await"
    /\ fetch_content
    /\ responses' = Append(responses, "ok")
    /\ parses' = parses + 1
    /\ spc' = "fetching"
    /\ \E us \in lists : FetchCall(us, concurrency_limit)
    /\ UNCHANGED <<sargs, params_count, sent, requests, attempt, sleeps, result,
                   concurrency_limit, dvars>>

RespOkFetch == RespOkFetchOf(UrlListsUpTo(MaxResults))

\* fetch_all_url_contents returns: lines 293-299.
SearchFetched ==
    /\ spc = "fetching"
    /\ GatherDone
    /\ spc' = "done"
    /\ result' = "listing_map"
    /\ UNCHANGED <<sargs, params_count, sent, attempt, requests, sleeps, parses,
                   responses, dvars>>

\* asyncio.sleep(wait_time) ends: the loop goes to its next iteration.
BackoffWake ==
    /\ spc = "backoff"
    /\ attempt' = attempt + 1
    /\ spc' = "loop"
    /\ UNCHANGED <<sargs, params_count, sent, requests, sleeps, parses, responses,
                   result, fvars, dvars>>

\* Lines 430-438 of fetch_documentation_for_llm: the search it called with
\* fetch_content=True has ended.  An exception of the search is not handled
\* and leaves the function; (None, None) gives it no map, else url_content is
\* the map of the fetched texts.
DocCall ==
    /\ dpc = "idle"
    /\ spc = "done"
    /\ fetch_content
    /\ IF result \in {"config_error", "raised"}
       THEN dpc' = "raised" /\ UNCHANGED url_content
       ELSE /\ dpc' = "start"
            /\ url_content' = IF result = "listing_map" THEN url_contents ELSE <<>>
    /\ UNCHANGED <<max_content_length, max_total_length, sorted_urls, idx, truncated_content,
                   new_truncated_content, allocated, total_content_length, sources, phase2,
                   formatted_content, fvars, svars, lvars, wvars>>

DocFrame ==
    UNCHANGED <<url_content, max_content_length, max_total_length, fvars, svars, lvars, wvars>>

\* Lines 440-449: nothing was fetched, the empty result is returned.
DocEmpty ==
    /\ dpc = "start"
    /\ url_content = <<>>
    /\ dpc' = "done"
    /\ UNCHANGED <<sorted_urls, idx, truncated_content, new_truncated_content, allocated,
                   total_content_length, sources, phase2, formatted_content>>
    /\ DocFrame

\* count arguments: the default, and one above the provider's maximum.
RequestedCounts == {5, 21}

InitSearch ==
    /\ FetchIdle
    /\ concurrency_limit \in 1..MaxK
    /\ spc = "start"
    /\ api_key \in BOOLEAN
    /\ count \in RequestedCounts
    /\ params_count = 0
    /\ sent = <<>>
    /\ retry_count \in 0..MaxRetry
    /\ retry_delay \in 1..MaxDelay      \* a delay in seconds, positive
    /\ fetch_content \in BOOLEAN
    /\ attempt = 0
    /\ requests = 0
    /\ sleeps = <<>>
    /\ parses = 0
    /\ responses = <<>>
    /\ result = "pending"
    /\ DocIdle
    /\ ListingIdle
    /\ WebhookIdle

NextSearch ==
    \/ SearchStart
    \/ SearchRequest
    \/ RespRateLimited
    \/ RespError
    \/ RespClientError
    \/ RespOkBodyError
    \/ RespOkUndecodable
    \/ RespOkNoResults
    \/ RespOkListing
    \/ RespOkFetch
    \/ SearchFetched
    \/ BackoffWake
    \/ TaskStep
    \/ DocCall
    \/ DocEmpty

SpecSearch == InitSearch /\ [][NextSearch]_vars

\* ------------------------------ the search whose first request is answered
\* brave_search_with_content(query, fetch_content=True) with the defaults of
\* lines 205-209, the provider answering the first request with a result list
\* of up to MaxUrls entries.
InitSearchOk ==
    /\ FetchIdle
    /\ concurrency_limit \in 1..MaxK
    /\ spc = "start"
    /\ api_key = TRUE
    /\ count = 5
    /\ params_count = 0
    /\ sent = <<>>
    /\ retry_count = 2
    /\ retry_delay = 2
    /\ fetch_content = TRUE
    /\ attempt = 0
    /\ requests = 0
    /\ sleeps = <<>>
    /\ parses = 0
    /\ responses = <<>>
    /\ result = "pending"
    /\ DocIdle
    /\ ListingIdle
    /\ WebhookIdle

RespOkFetchMany == RespOkFetchOf(UrlLists)

NextSearchOk ==
    \/ SearchStart
    \/ SearchRequest
    \/ RespOkFetchMany
    \/ SearchFetched
    \/ TaskStep

SpecSearchOk == InitSearchOk /\ [][NextSearchOk]_vars

\* --------------------------------------------- fetch_documentation_for_llm
\* A final text: the first `taken` characters of the raw text, then the
\* truncation marker when `marker` is set.
TakenLen(t) == t.taken
FinalLen(t) == t.taken + (IF t.marker THEN MarkerLen ELSE 0)

\* d[u] for a key the dict holds.
DictGet(d, u) == d[CHOOSE i \in DOMAIN d : d[i].url = u].text

RECURSIVE SumLens(_)
\* sum(len(content) for _, content in items)
SumLens(items) ==
    IF items = <<>> THEN 0 ELSE Head(items).text + SumLens(Tail(items))

\* sorted(..., key=len, reverse=True) is stable: an item goes behind every
\* item that is at least as long.
InsertByLen(s, e) ==
    LET k == Cardinality({i \in DOMAIN s : s[i].text >= e.text})
    IN  SubSeq(s, 1, k) \o <<e>> \o SubSeq(s, k + 1, Len(s))

RECURSIVE SortedByLenInto(_, _)
SortedByLenInto(acc, items) ==
    IF items = <<>> THEN acc
    ELSE SortedByLenInto(InsertByLen(acc, Head(items)), Tail(items))

\* Line 481.
SortedUrlsAsFetched(items) == items
SortedUrls(items) == SortedByLenInto(<<>>, items)

\* Line 492: the text is longer than the per-source cap.
ExceedsCapInclusive(len) == len >= max_content_length
ExceedsCap(len) == len > max_content_length

\* Lines 492-495.
Phase1TextNoMarker(len) ==
    IF ExceedsCap(len) THEN [taken |-> max_content_length, marker |-> FALSE]
    ELSE [taken |-> len, marker |-> FALSE]
Phase1Text(len) ==
    IF ExceedsCap(len) THEN [taken |-> max_content_length, marker |-> TRUE]
    ELSE [taken |-> len, marker |-> FALSE]

\* Lines 519-525: int(proportion * max_total_length), at least 1000, at most
\* the original length.
AllocatedLengthNoCeiling(len) ==
    Max((len * max_total_length) \div SumLens(sorted_urls), MinAllocation)
AllocatedLength(len) ==
    Min(Max((len * max_total_length) \div SumLens(sorted_urls), MinAllocation), len)

\* Lines 528-531.
Phase2Text(len) ==
    [taken |-> Min(AllocatedLength(len), len), marker |-> len > AllocatedLength(len)]

\* Line 509: the texts of Phase 1 are together longer than the global cap.
ExceedsTotalInclusive(total) == total >= max_total_length
ExceedsTotal(total) == total > max_total_length

\* Line 543: the loop of Phase 2 stops.
Phase2StopsNever(total) == FALSE
Phase2Stops(total) == total >= max_total_length

\* Lines 534-537.
SetTruncated(srcs, u, flag) ==
    LET hits == {i \in DOMAIN srcs : srcs[i].url = u}
    IN  IF hits = {} THEN srcs
        ELSE LET first == CHOOSE i \in hits : \A j \in hits : i <= j
             IN  [srcs EXCEPT ![first].truncated = flag]

\* Lines 472-481.
DocSort ==
    /\ dpc = "start"
    /\ url_content # <<>>
    /\ sorted_urls' = SortedUrls(url_content)
    /\ idx' = 1
    /\ dpc' = "phase1"
    /\ UNCHANGED <<truncated_content, new_truncated_content, allocated,
                   total_content_length, sources, phase2, formatted_content>>
    /\ DocFrame

\* One iteration of the loop of lines 483-506.
Phase1Step ==
    /\ dpc = "phase1"
    /\ idx <= Len(sorted_urls)
    /\ LET url == sorted_urls[idx].url
           content_length == sorted_urls[idx].text
       IN  /\ truncated_content' = DictSet(truncated_content, url, Phase1Text(content_length))
           /\ total_content_length' = total_content_length + FinalLen(Phase1Text(content_length))
           /\ sources' = Append(sources, [url |-> url, content_length |-> content_length,
                                          truncated |-> ExceedsCap(content_length)])
    /\ idx' = idx + 1
    /\ UNCHANGED <<dpc, sorted_urls, new_truncated_content, allocated, phase2,
                   formatted_content>>
    /\ DocFrame

\* The loop of Phase 1 is over.
Phase1End ==
    /\ dpc = "phase1"
    /\ idx > Len(sorted_urls)
    /\ dpc' = "check"
    /\ UNCHANGED <<sorted_urls, idx, truncated_content, new_truncated_content, allocated,
                   total_content_length, sources, phase2, formatted_content>>
    /\ DocFrame

\* Line 509 holds: lines 510-514 reset the total for Phase 2.
Phase2Enter ==
    /\ dpc = "check"
    /\ ExceedsTotal(total_content_length)
    /\ phase2' = TRUE
    /\ total_content_length' = 0
    /\ new_truncated_content' = <<>>
    /\ allocated' = <<>>
    /\ idx' = 1
    /\ dpc' = "phase2"
    /\ UNCHANGED <<sorted_urls, truncated_content, sources, formatted_content>>
    /\ DocFrame

\* Line 509 does not hold: the texts of Phase 1 are final.
Phase2Skip ==
    /\ dpc = "check"
    /\ ~ExceedsTotal(total_content_length)
    /\ dpc' = "format"
    /\ UNCHANGED <<sorted_urls, idx, truncated_content, new_truncated_content, allocated,
                   total_content_length, sources, phase2, formatted_content>>
    /\ DocFrame

\* One iteration of the loop of lines 517-544; after the last one, or after
\* the break of line 544, line 546 installs the new dict.
Phase2Step ==
    /\ dpc = "phase2"
    /\ idx <= Len(sorted_urls)
    /\ LET url == sorted_urls[idx].url
           original_length == DictGet(url_content, url)
           text == Phase2Text(original_length)
           total == total_content_length + FinalLen(text)
           filled == DictSet(new_truncated_content, url, text)
           last == Phase2Stops(total) \/ idx = Len(sorted_urls)
       IN  /\ allocated' = DictSet(allocated, url, AllocatedLength(original_length))
           /\ new_truncated_content' = filled
           /\ sources' = SetTruncated(sources, url, original_length > AllocatedLength(original_length))
           /\ total_content_length' = total
           /\ truncated_content' = IF last THEN filled ELSE truncated_content
           /\ dpc' = IF last THEN "format" ELSE "phase2"
    /\ idx' = idx + 1
    /\ UNCHANGED <<sorted_urls, phase2, formatted_content>>
    /\ DocFrame

\* Lines 562-565: the summary numbers the sources and lists those with content.
SummaryOfAll(srcs, d) ==
    [k \in DOMAIN srcs |->
        [i |-> k, url |-> srcs[k].url, content_length |-> srcs[k].content_length,
         truncated |-> srcs[k].truncated]]
SummaryOf(srcs, d) ==
    LET kept == {i \in DOMAIN srcs : HasKey(d, srcs[i].url)}
        Nth(k) == CHOOSE i \in kept : Cardinality({j \in kept : j < i}) = k - 1
    IN  [k \in 1..Cardinality(kept) |->
            [i |-> Nth(k), url |-> srcs[Nth(k)].url,
             content_length |-> srcs[Nth(k)].content_length,
             truncated |-> srcs[Nth(k)].truncated]]

\* Lines 548-574: one block per item of truncated_content, then the summary.
Format ==
    /\ dpc = "format"
    /\ formatted_content' = [blocks |-> truncated_content,
                             summary |-> SummaryOf(sources, truncated_content)]
    /\ dpc' = "done"
    /\ UNCHANGED <<sorted_urls, idx, truncated_content, new_truncated_content, allocated,
                   total_content_length, sources, phase2>>
    /\ DocFrame

\* The lengths of the fetched texts, and the caps, the runs are made with.
Lengths == {10, 500, 1500, 3000, 10000, 12000}
PerSourceCaps == {1500, 10000}
TotalCaps == {3020, 8000, 13000, 50000}

\* The dicts of up to MaxSources fetched texts; the k-th inserted key is k.
UrlContents ==
    UNION {{[i \in 1..n |-> [url |-> i, text |-> f[i]]] : f \in [1..n -> Lengths]} :
           n \in 0..MaxSources}

InitDoc ==
    /\ FetchIdle
    /\ concurrency_limit = 0
    /\ SearchIdle
    /\ ListingIdle
    /\ WebhookIdle
    /\ dpc = "start"
    /\ url_content \in UrlContents
    /\ max_content_length \in PerSourceCaps
    /\ max_total_length \in TotalCaps
    /\ sorted_urls = <<>>
    /\ idx = 0
    /\ truncated_content = <<>>
    /\ new_truncated_content = <<>>
    /\ allocated = <<>>
    /\ total_content_length = 0
    /\ sources = <<>>
    /\ phase2 = FALSE
    /\ formatted_content = <<>>

NextDoc ==
    \/ DocEmpty
    \/ DocSort
    \/ Phase1Step
    \/ Phase1End
    \/ Phase2Enter
    \/ Phase2Skip
    \/ Phase2Step
    \/ Format

SpecDoc == InitDoc /\ [][NextDoc]_vars

\* fetch_documentation_for_llm from its call on: the search with its fetch
\* tasks (lines 430-438), then the document built from the map the search
\* returned.  The caps are the default per source and totals below and above
\* what the fetched texts add up to.
PipelineTotalCaps == {1500, 50000}

InitPipeline ==
    /\ FetchIdle
    /\ concurrency_limit \in 1..MaxK
    /\ spc = "start"
    /\ api_key = TRUE
    /\ count = 5
    /\ params_count = 0
    /\ sent = <<>>
    /\ retry_count = 2
    /\ retry_delay = 2
    /\ fetch_content = TRUE
    /\ attempt = 0
    /\ requests = 0
    /\ sleeps = <<>>
    /\ parses = 0
    /\ responses = <<>>
    /\ result = "pending"
    /\ dpc = "idle"
    /\ url_content = <<>>
    /\ max_content_length = 10000
    /\ max_total_length \in PipelineTotalCaps
    /\ sorted_urls = <<>>
    /\ idx = 0
    /\ truncated_content = <<>>
    /\ new_truncated_content = <<>>
    /\ allocated = <<>>
    /\ total_content_length = 0
    /\ sources = <<>>
    /\ phase2 = FALSE
    /\ formatted_content = <<>>
    /\ ListingIdle
    /\ WebhookIdle

NextPipeline ==
    \/ NextSearchOk
    \/ DocCall
    \/ NextDoc

SpecPipeline == InitPipeline /\ [][NextPipeline]_vars

\* ------------------------- format_search_results and the listing re-parse
\* A line of text is the list of its words, a text the list of its lines; the
\* markers the code tests lines for ("URL:", "Description:", ...) are words.
\* A provider result is [title, url, description, age, content]: title and
\* description are lines, url a word, age None or a word, content None or
\* the fetched text [lines, long], long saying it has more than 500
\* characters, of which lines are the first 500.

HeaderMark == "# Search Results for:"
Separator == "----------------------------------------"
\* The line of three backquotes that opens and closes a preview (line 95).
Fence == "fence"

\* f"{idx}." of line 84.
RankToken(k) == <<"1.", "2.", "3.", "4.">>[k]

\* Line 94: the first 500 characters, and "..." when the text is longer.
Preview(c) ==
    IF c.long
    THEN [i \in DOMAIN c.lines |->
             IF i = Len(c.lines) THEN Append(c.lines[i], "...") ELSE c.lines[i]]
    ELSE c.lines

\* Lines 84-97 with every result rendered only when it has fetched content.
ResultLinesIfContent(k, r, ic) ==
    IF ic /\ r.content = None THEN <<>>
    ELSE << <<RankToken(k)>> \o r.title, <<"URL:", r.url>>, <<"Description:">> \o r.description,
            <<Separator>>, <<>> >>

\* Lines 84-97: the lines one result adds to the listing.  The strings
\* "\nContent Preview:" and "...\n" each bring an empty line with them.
ResultLines(k, r, ic) ==
    << <<RankToken(k)>> \o r.title, <<"URL:", r.url>>, <<"Description:">> \o r.description >>
    \o (IF r.age # None THEN << <<"Age:", r.age[1]>> >> ELSE <<>>)
    \o (IF ic /\ r.content # None
        THEN << <<>>, <<"Content Preview:">>, <<Fence>> >>
             \o Preview(r.content[1]) \o << <<Fence>> >>
        ELSE <<>>)
    \o << <<Separator>>, <<>> >>

RECURSIVE AllResultLines(_, _, _)
\* The loop of line 83, from the k-th result on.
AllResultLines(results, k, ic) ==
    IF k > Len(results) THEN <<>>
    ELSE ResultLines(k, results[k], ic) \o AllResultLines(results, k + 1, ic)

\* What lines 75-78 raise on a response of the given shape: KeyError on a
\* missing key, TypeError on a response that is no dict, a pydantic
\* ValidationError on a query or a result that lacks a required field.
InvalidShapes == {"not_a_dict", "no_query", "no_web", "bad_query", "bad_result"}

\* except Exception (line 101) takes every one of them.
FormatCaughtKeyErrorOnly(shape) == shape \in {"no_query", "no_web"}
FormatCaught(shape) == TRUE

\* format_search_results(response, include_content): the listing, or "" (no
\* line at all) from the except branch.
FormatSearchResults(resp, ic) ==
    IF resp.shape # "ok" THEN <<>>
    ELSE << <<HeaderMark, "q">>, <<>> >> \o AllResultLines(resp.results, 1, ic)

\* What rendering leaves in the response it was given: lines 75-78 build
\* pydantic objects from the dict and nothing is written back.
ResponseWithPreviewStored(resp) ==
    [resp EXCEPT !.results =
        [k \in DOMAIN resp.results |->
            IF resp.results[k].content = None THEN resp.results[k]
            ELSE [resp.results[k] EXCEPT !.content =
                     <<[lines |-> Preview(resp.results[k].content[1]),
                        long |-> resp.results[k].content[1].long]>>]]]
ResponseAfterFormat(resp) == resp

\* str.startswith for a marker, and line.replace(marker, '').strip().
StartsWith(line, word) == line # <<>> /\ line[1] = word

RECURSIVE Without(_, _)
Without(line, word) ==
    IF line = <<>> THEN <<>>
    ELSE IF Head(line) = word THEN Without(Tail(line), word)
    ELSE <<Head(line)>> \o Without(Tail(line), word)

\* A dict of lines 455-470: each key absent (None) or holding a value.
EmptyObject == [title |-> None, url |-> None, description |-> None]

RECURSIVE ParseLines(_, _, _)
\* The loop of lines 457-470 over the remaining lines.
ParseLines(lines, objects, current) ==
    IF lines = <<>> THEN objects
    ELSE LET line == Head(lines)
             rest == Tail(lines)
         IN  IF StartsWith(line, HeaderMark) THEN ParseLines(rest, objects, current)
             ELSE IF StartsWith(line, "URL:")
                  THEN ParseLines(rest, objects,
                                  [current EXCEPT !.url = <<Without(line, "URL:")>>])
             ELSE IF StartsWith(line, "Description:")
                  THEN ParseLines(rest,
                                  Append(objects, [current EXCEPT !.description =
                                                      <<Without(line, "Description:")>>]),
                                  EmptyObject)
             ELSE IF StartsWith(line, Separator) THEN ParseLines(rest, objects, current)
             ELSE IF line # <<>> /\ ~StartsWith(line, "Age:")
                                /\ ~StartsWith(line, "Content Preview:")
                  THEN ParseLines(rest, objects, [EmptyObject EXCEPT !.title = <<line>>])
             ELSE ParseLines(rest, objects, current)

\* Lines 452-470: nothing is parsed from an empty listing.
ParsedObjects(markdown) ==
    IF markdown = <<>> THEN <<>> ELSE ParseLines(markdown, <<>>, EmptyObject)

\* Lines 485 and 551: the title of the first object whose url is u, else
\* "Unknown Title"; result['title'] raises KeyError on an object without one.
TitleFor(objects, u) ==
    LET hits == {i \in DOMAIN objects : objects[i].url = <<<<u>>>>}
    IN  IF hits = {} THEN [raised |-> FALSE, title |-> <<"Unknown Title">>]
        ELSE LET first == CHOOSE i \in hits : \A j \in hits : i <= j
             IN  IF objects[first].title = None
                 THEN [raised |-> TRUE, title |-> <<>>]
                 ELSE [raised |-> FALSE, title |-> objects[first].title[1]]

\* The keys of the map brave_search_with_content returns with the listing:
\* the URLs of the results that carry fetched content (lines 296-297).
FetchedUrls(resp) ==
    {resp.results[k].url : k \in {j \in DOMAIN resp.results : resp.results[j].content # None}}

ListingFrame == UNCHANGED <<include_content, docvars, fvars, svars, wvars>>

\* format_search_results is called (lines 279, 299).
FormatListing ==
    /\ lpc = "format"
    /\ IF response.shape # "ok" /\ ~FormatCaught(response.shape)
       THEN lpc' = "raised" /\ UNCHANGED <<response, search_results>>
       ELSE /\ search_results' = FormatSearchResults(response, include_content)
            /\ response' = ResponseAfterFormat(response)
            /\ lpc' = "again"
    /\ UNCHANGED <<search_result_objects, titles>>
    /\ ListingFrame

\* The same response is rendered a second time.  fetch_documentation_for_llm
\* goes on to line 451 when the search fetched content for some URL.
FormatListingAgain ==
    /\ lpc = "again"
    /\ search_results' = FormatSearchResults(response, include_content)
    /\ response' = ResponseAfterFormat(response)
    /\ lpc' = IF include_content /\ FetchedUrls(response) # {} THEN "parse" ELSE "done"
    /\ UNCHANGED <<search_result_objects, titles>>
    /\ ListingFrame

\* Lines 451-470.
ParseListing ==
    /\ lpc = "parse"
    /\ search_result_objects' = ParsedObjects(search_results)
    /\ lpc' = "titles"
    /\ UNCHANGED <<response, search_results, titles>>
    /\ ListingFrame

\* Lines 483-485 and 549-551: the title of every fetched URL is looked up.
ResolveTitles ==
    /\ lpc = "titles"
    /\ IF \E u \in FetchedUrls(response) : TitleFor(search_result_objects, u).raised
       THEN lpc' = "raised" /\ UNCHANGED titles
       ELSE /\ titles' = [u \in FetchedUrls(response) |->
                            TitleFor(search_result_objects, u).title]
            /\ lpc' = "done"
    /\ UNCHANGED <<response, search_results, search_result_objects>>
    /\ ListingFrame

\* The provider results the runs are made with.
ListingTitles == {<<"A">>, <<"B">>}
ListingUrls == {"u1", "u2"}
ListingAges == {None, <<"2d">>}
\* Fetched texts: a short page, a long page, and a page with lines that start
\* like the listing's own URL and Description lines.
ListingContents ==
    {None,
     <<[lines |-> <<<<"x">>>>, long |-> FALSE]>>,
     <<[lines |-> <<<<"x">>>>, long |-> TRUE]>>,
     <<[lines |-> << <<"URL:", "u2">>, <<"Description:", "y">> >>, long |-> FALSE]>>}

ListingResults(contents) ==
    [title : ListingTitles, url : ListingUrls, description : {<<"d">>},
     age : ListingAges, content : contents]

\* Well-formed responses of up to MaxListing results.  The content of a
\* result is the map's entry for its URL (line 297), so results of one URL
\* carry one content.
ValidResponses(contents) ==
    UNION {{[shape |-> "ok", results |-> rs] :
               rs \in {f \in [1..n -> ListingResults(contents)] :
                          \A i, j \in 1..n : f[i].url = f[j].url => f[i].content = f[j].content}} :
           n \in 0..MaxListing}

\* A response of an invalid shape; the shapes that keep web.results still
\* carry a result.
InvalidResponse(shape, c) ==
    [shape |-> shape,
     results |-> IF shape \in {"not_a_dict", "no_web"} THEN <<>>
                 ELSE <<[title |-> <<"A">>, url |-> "u1", description |-> <<"d">>,
                         age |-> None, content |-> c]>>]

\* brave_search renders the provider data as it came; with fetch_content the
\* results carry the fetched texts, and line 282 has read web.results.
InitListing ==
    /\ FetchIdle
    /\ concurrency_limit = 0
    /\ SearchIdle
    /\ DocIdle
    /\ lpc = "format"
    /\ include_content \in BOOLEAN
    /\ response \in
          IF include_content
          THEN ValidResponses(ListingContents)
               \cup {InvalidResponse(sh, c) : sh \in {"no_query", "bad_query", "bad_result"},
                                              c \in ListingContents}
          ELSE ValidResponses({None})
               \cup {InvalidResponse(sh, None) : sh \in InvalidShapes}
    /\ search_results = <<>>
    /\ search_result_objects = <<>>
    /\ titles = <<>>
    /\ WebhookIdle

NextListing ==
    \/ FormatListing
    \/ FormatListingAgain
    \/ ParseListing
    \/ ResolveTitles

SpecListing == InitListing /\ [][NextListing]_vars

\* Lines 548-565 run a second time over the same truncated_content and sources.
FormatAgain ==
    /\ dpc = "done"
    /\ url_content # <<>>
    /\ formatted_content' = [blocks |-> truncated_content,
                             summary |-> SummaryOf(sources, truncated_content)]
    /\ dpc' = "formatted_again"
    /\ UNCHANGED <<sorted_urls, idx, truncated_content, new_truncated_content, allocated,
                   total_content_length, sources, phase2>>
    /\ DocFrame

\* Both formatters, each applied twice to its input.
InitRender == InitListing \/ InitDoc
NextRender == NextListing \/ NextDoc \/ FormatAgain
SpecRender == InitRender /\ [][NextRender]_vars

\* ------------------------------------ has_codegen_label and handle_webhook
\* A payload is [type, action, labels, updated_from, malformed]: labels is
\* data.labels as a list of [id, name]; updated_from is [kind, ids] with kind
\* "empty" (the key is missing, null or {}), "other_fields" (a dict without
\* labelIds), "labelIds" (labelIds is the list ids) or "labelIds_null";
\* malformed says that building the LinearIssueUpdateEvent or reading a
\* label of it raises.

CodegenName == "Codegen"

IsCodegen(label) == label.name = CodegenName

\* helpers.py line 121.
HasCodegen(labels) == \E i \in DOMAIN labels : IsCodegen(labels[i])

\* helpers.py line 124: the id of the first label named Codegen, or None.
CodegenLabelId(labels) ==
    IF HasCodegen(labels)
    THEN Some(labels[CHOOSE i \in DOMAIN labels :
                        /\ IsCodegen(labels[i])
                        /\ \A j \in DOMAIN labels : IsCodegen(labels[j]) => i <= j].id)
    ELSE None

\* helpers.py line 134: updated_from.get("labelIds", []).
PreviousLabels(uf) == IF uf.kind = "labelIds" THEN uf.ids ELSE {}

\* helpers.py lines 106-153.  Inside the try every exception gives False:
\* the ones of a malformed payload, and the TypeError of
\* `codegen_label_id in None` when labelIds is null.
HasCodegenLabelOf(body) ==
    IF body.type = "Issue" /\ body.action = "update"
    THEN IF body.malformed THEN FALSE
         ELSE IF body.labels = <<>> THEN FALSE
         ELSE IF body.updated_from.kind = "empty" THEN HasCodegen(body.labels)
         ELSE IF body.updated_from.kind = "labelIds_null" THEN FALSE
         ELSE LET codegen_label_id == CodegenLabelId(body.labels)
                  had_codegen_label ==
                      /\ codegen_label_id # None
                      /\ codegen_label_id[1] \in PreviousLabels(body.updated_from)
              IN  IF ~HasCodegen(body.labels) THEN FALSE
                  ELSE ~had_codegen_label
    ELSE FALSE

\* The handler answers with the given status.
Reply(status) ==
    /\ reply' = status
    /\ wpc' = "replied"

\* app.py lines 141-144.
WebhookCheck ==
    /\ wpc = "recv"
    /\ labelled' = HasCodegenLabelOf(event)
    /\ IF labelled' THEN wpc' = "token" /\ UNCHANGED reply ELSE Reply("skipped")
    /\ UNCHANGED <<event, on_branch, agent_started, resets, fvars, svars, docvars, lvars>>

\* app.py lines 147-181: the token is read, the client and the event are
\* built and the issue is commented on; a failing comment is only logged.
WebhookToken ==
    /\ wpc = "token"
    /\ \E outcome \in {"ok", "no_token", "raised"} :
          IF outcome = "ok" THEN wpc' = "repo" /\ UNCHANGED reply ELSE Reply("error")
    /\ UNCHANGED <<event, labelled, on_branch, agent_started, resets,
                   fvars, svars, docvars, lvars>>

\* app.py lines 182-217: the directory of the cached codebase is looked up.
WebhookRepo ==
    /\ wpc = "repo"
    /\ \E outcome \in {"found", "not_found", "raised"} :
          IF outcome = "found" THEN wpc' = "branch" /\ UNCHANGED reply ELSE Reply("error")
    /\ UNCHANGED <<event, labelled, on_branch, agent_started, resets,
                   fvars, svars, docvars, lvars>>

\* app.py lines 219-239: the branch is created, or checked out when it
\* exists; when both fail, or git cannot be run, the handler answers error.
WebhookBranch ==
    /\ wpc = "branch"
    /\ \E outcome \in {"created", "existing", "failed", "raised"} :
          IF outcome \in {"created", "existing"}
          THEN on_branch' = TRUE /\ wpc' = "agent" /\ UNCHANGED reply
          ELSE Reply("error") /\ UNCHANGED on_branch
    /\ UNCHANGED <<event, labelled, agent_started, resets, fvars, svars, docvars, lvars>>

\* app.py lines 241-246: the agent is built and run.  An exception of
\* agent.run is taken by the handler of line 328.
AgentRun ==
    /\ wpc = "agent"
    /\ \E outcome \in {"returned", "raised", "not_built"} :
          /\ agent_started' = (outcome # "not_built")
          /\ IF outcome = "returned" THEN wpc' = "status" /\ UNCHANGED reply
             ELSE Reply("error")
    /\ UNCHANGED <<event, labelled, on_branch, resets, fvars, svars, docvars, lvars>>

\* app.py lines 248-322: without changes the codebase is reset and the
\* handler answers (lines 259-261); every exception in the block, the one of
\* that reset included, is taken by line 320.
AfterAgent ==
    /\ wpc = "status"
    /\ \E outcome \in {"no_changes", "no_changes_reset_raised", "changes", "raised"} :
          /\ resets' = IF outcome \in {"no_changes", "no_changes_reset_raised"}
                       THEN resets + 1 ELSE resets
          /\ IF outcome = "no_changes" THEN Reply("success")
             ELSE wpc' = "reset" /\ UNCHANGED reply
    /\ UNCHANGED <<event, labelled, on_branch, agent_started, fvars, svars, docvars, lvars>>

\* app.py lines 324-330.
FinalReset ==
    /\ wpc = "reset"
    /\ resets' = resets + 1
    /\ \E raised \in BOOLEAN : IF raised THEN Reply("error") ELSE Reply("success")
    /\ UNCHANGED <<event, labelled, on_branch, agent_started, fvars, svars, docvars, lvars>>

\* The payloads the runs are made with.
LabelIds == {"L1", "L2"}
Labels == {[id |-> "L1", name |-> CodegenName], [id |-> "L2", name |-> "Bug"]}
LabelLists == UNION {[1..n -> Labels] : n \in 0..MaxLabels}
UpdatedFroms ==
    {[kind |-> k, ids |-> {}] : k \in {"empty", "other_fields", "labelIds_null"}}
        \cup {[kind |-> "labelIds", ids |-> ids] : ids \in SUBSET LabelIds}
Events ==
    [type : {"Issue", "Comment"}, action : {"update", "create"}, labels : LabelLists,
     updated_from : UpdatedFroms, malformed : BOOLEAN]

\* A webhook has arrived (app.py line 135).
InitWebhook ==
    /\ FetchIdle
    /\ concurrency_limit = 0
    /\ SearchIdle
    /\ DocIdle
    /\ ListingIdle
    /\ wpc = "recv"
    /\ event \in Events
    /\ labelled = FALSE
    /\ reply = "none"
    /\ on_branch = FALSE
    /\ agent_started = FALSE
    /\ resets = 0

NextWebhook ==
    \/ WebhookCheck
    \/ WebhookToken
    \/ WebhookRepo
    \/ WebhookBranch
    \/ AgentRun
    \/ AfterAgent
    \/ FinalReset

SpecWebhook == InitWebhook /\ [][NextWebhook]_vars

\* ================================================================ claims

\* ------------------------------------------------------------------ C1
\* The tasks that hold a permit: inside the with block of lines 189-193.
Holding == {t \in Tasks : tpc[t] \in {"get", "retry_sleep", "delay"}}

\* C1: in every reachable state of fetch_all_url_contents at most
\* concurrency_limit tasks hold a semaphore permit (running fetch_url_content
\* or sleeping the post-fetch delay).
C1_AtMostKHolding ==
    fpc = "running" => Cardinality(Holding) <= concurrency_limit

\* More URLs than permits: every permit is taken, one holder sleeps the
\* post-fetch delay and another task waits.
C1_Witness ==
    /\ fpc = "running"
    /\ Len(urls) > concurrency_limit
    /\ Cardinality(Holding) = concurrency_limit
    /\ \E t \in Tasks : tpc[t] = "acquire"
    /\ \E t \in Tasks : tpc[t] = "delay"

\* ------------------------------------------------------- C2 .. C8 helpers
DocDone == dpc = "done" /\ url_content # <<>>
Blocks == formatted_content.blocks
HasBlock(u) == HasKey(Blocks, u)
OriginalLen(u) == DictGet(url_content, u)

RECURSIVE SumCapped(_)
\* The sum of min(originalLen, max_content_length) over the items.
SumCapped(items) ==
    IF items = <<>> THEN 0
    ELSE Min(Head(items).text, max_content_length) + SumCapped(Tail(items))

RECURSIVE SumPhase1(_)
\* The sum of the lengths of the Phase-1 texts: the marker counts.
SumPhase1(items) ==
    IF items = <<>> THEN 0
    ELSE Min(Head(items).text, max_content_length)
         + (IF Head(items).text > max_content_length THEN MarkerLen ELSE 0)
         + SumPhase1(Tail(items))

\* ------------------------------------------------------------------ C2
\* C2: whenever Phase 2 ran, the value reported as total_content_length is
\* at most max_total_length.
C2_TotalWithinGlobalCap ==
    (DocDone /\ phase2) => total_content_length <= max_total_length

\* ------------------------------------------------------------------ C3
\* C3: in Phase 2 every source that is allocated content has an
\* allocated_length between min(1000, originalLen) and originalLen.
C3_AllocationInRange ==
    phase2 =>
        \A i \in DOMAIN allocated :
            /\ allocated[i].text >= Min(MinAllocation, OriginalLen(allocated[i].url))
            /\ allocated[i].text <= OriginalLen(allocated[i].url)

\* Phase 2 has run; one source was raised to the floor of 1000 and cut there,
\* and a source shorter than 1000 got all of its text.
C3_Witness ==
    /\ DocDone /\ phase2
    /\ \E i \in DOMAIN allocated :
          /\ allocated[i].text = MinAllocation
          /\ OriginalLen(allocated[i].url) > MinAllocation
          /\ (OriginalLen(allocated[i].url) * max_total_length) \div SumLens(url_content)
                < MinAllocation
    /\ \E i \in DOMAIN allocated :
          /\ OriginalLen(allocated[i].url) < MinAllocation
          /\ allocated[i].text = OriginalLen(allocated[i].url)

\* ------------------------------------------------------------------ C4
\* C4: every content block of the result holds at most max_content_length
\* characters of its source's raw text, after Phase 1 and after Phase 2.
C4_PerSourceCapOnArtifact ==
    DocDone => \A i \in DOMAIN Blocks : Blocks[i].text.taken <= max_content_length

\* ------------------------------------------------------------------ C5
\* C5 as stated: after Phase 1 the stored text of every source longer than
\* max_content_length has length at most max_content_length.
C5_StoredTextWithinCap ==
    dpc = "check" =>
        \A i \in DOMAIN sources :
            sources[i].content_length > max_content_length
                => FinalLen(DictGet(truncated_content, sources[i].url)) <= max_content_length

\* C5 amended: after Phase 1 the stored text of every source longer than
\* max_content_length is the first max_content_length characters of the raw
\* text followed by the 23-character marker, so its length is
\* max_content_length + 23.
C5_StoredTextIsCapPlusMarker ==
    dpc = "check" =>
        \A i \in DOMAIN sources :
            sources[i].content_length > max_content_length
                => /\ DictGet(truncated_content, sources[i].url)
                        = [taken |-> max_content_length, marker |-> TRUE]
                   /\ FinalLen(DictGet(truncated_content, sources[i].url))
                        = max_content_length + MarkerLen

\* Phase 1 is over and has cut a source.
C5_Witness ==
    /\ dpc = "check"
    /\ \E i \in DOMAIN sources : sources[i].content_length > max_content_length

\* ------------------------------------------------------------------ C6
\* C6: after Phase 1 every source whose original length is at most
\* max_content_length keeps its whole text, without marker, and its truncated
\* flag is false.
C6_ShortSourcesUntouched ==
    dpc = "check" =>
        \A i \in DOMAIN url_content :
            url_content[i].text <= max_content_length
                => /\ DictGet(truncated_content, url_content[i].url)
                        = [taken |-> url_content[i].text, marker |-> FALSE]
                   /\ \E j \in DOMAIN sources :
                          /\ sources[j].url = url_content[i].url
                          /\ sources[j].truncated = FALSE

\* Phase 1 is over; one source is exactly as long as the cap, one is longer.
C6_Witness ==
    /\ dpc = "check"
    /\ \E i \in DOMAIN url_content : url_content[i].text = max_content_length
    /\ \E i \in DOMAIN url_content : url_content[i].text > max_content_length

\* ------------------------------------------------------------------ C7
\* C7 as stated: the sum that decides is the sum of min(originalLen,
\* max_content_length); whenever it is at most max_total_length, Phase 2 is
\* not entered and every fetched source has a content block.
C7_CappedSumDecides ==
    (DocDone /\ SumCapped(url_content) <= max_total_length)
        => /\ ~phase2
           /\ \A u \in Keys(url_content) : HasBlock(u)

\* C7 amended: the sum that decides is the sum of the lengths of the Phase-1
\* texts, min(originalLen, max_content_length) plus 23 for the marker of every
\* source longer than max_content_length; whenever it is at most
\* max_total_length, Phase 2 is not entered and every fetched source has a
\* content block.
C7_Phase1SumDecides ==
    /\ dpc = "check" => total_content_length = SumPhase1(url_content)
    /\ (DocDone /\ SumPhase1(url_content) <= max_total_length)
           => /\ ~phase2
              /\ \A u \in Keys(url_content) : HasBlock(u)
              /\ total_content_length = SumPhase1(url_content)

\* Lengths 12000/3000/500 under the caps 10000/50000: the sum is 13523, no
\* Phase 2, three blocks.
C7_Witness ==
    /\ DocDone
    /\ [i \in DOMAIN url_content |-> url_content[i].text] = <<12000, 3000, 500>>
    /\ max_content_length = 10000
    /\ max_total_length = 50000
    /\ total_content_length = 13523
    /\ ~phase2
    /\ Len(Blocks) = 3

\* ------------------------------------------------------------------ C8
\* The sources of Phase 2 in processing order, and those that got content.
NumAllocated == Len(allocated)

RECURSIVE RunningAllocated(_)
\* The allocated lengths of the sources processed before position k, summed.
RunningAllocated(k) ==
    IF k <= 1 THEN 0
    ELSE RunningAllocated(k - 1)
         + (IF k - 1 <= NumAllocated THEN allocated[k - 1].text ELSE 0)

RECURSIVE RunningFinal(_)
\* The lengths of the final texts (marker included) of the sources processed
\* before position k, summed.
RunningFinal(k) ==
    IF k <= 1 THEN 0
    ELSE RunningFinal(k - 1)
         + (IF k - 1 <= Len(Blocks) THEN FinalLen(Blocks[k - 1].text) ELSE 0)

Phase2Order ==
    /\ \A j, k \in DOMAIN sorted_urls : j < k => sorted_urls[j].text >= sorted_urls[k].text
    /\ \A k \in DOMAIN Blocks : Blocks[k].url = sorted_urls[k].url
    /\ \A k \in DOMAIN allocated : allocated[k].url = sorted_urls[k].url

EverySourceListed ==
    \A k \in DOMAIN sorted_urls :
        \E j \in DOMAIN sources :
            /\ sources[j].url = sorted_urls[k].url
            /\ sources[j].content_length = sorted_urls[k].text

\* C8 as stated: in Phase 2 the sources are processed longest first, and a
\* source gets content exactly when the allocated lengths of the sources
\* before it sum to less than max_total_length; the others stay in the sources
\* list without a content block.
C8_StopOnAllocatedTotal ==
    (DocDone /\ phase2) =>
        /\ Phase2Order
        /\ \A k \in DOMAIN sorted_urls :
              HasBlock(sorted_urls[k].url) <=> RunningAllocated(k) < max_total_length
        /\ EverySourceListed

\* C8 amended: as stated, with the running total being the sum of the lengths
\* of the final texts of the sources before it, i.e. allocated length plus the
\* 23-character marker of every truncated source.
C8_StopOnFinalTotal ==
    (DocDone /\ phase2) =>
        /\ Phase2Order
        /\ \A k \in DOMAIN sorted_urls :
              HasBlock(sorted_urls[k].url) <=> RunningFinal(k) < max_total_length
        /\ EverySourceListed

\* Phase 2 stopped early: a source is in the sources list without a block.
C8_Witness ==
    /\ DocDone /\ phase2
    /\ Len(Blocks) >= 2
    /\ \E j \in DOMAIN sources : ~HasBlock(sources[j].url)

\* ------------------------------------------------------------------ C9
\* The provider answered k times 429 and then with a good body.
RateLimitedThenOk ==
    /\ responses # <<>>
    /\ responses[Len(responses)] = "ok"
    /\ \A i \in 1..(Len(responses) - 1) : responses[i] = "429"

SearchOver == spc = "done" /\ fpc = "idle" /\ urls = <<>>

MalformedBody == {"ok_body_error", "ok_undecodable", "ok_no_results"}

\* C12: a success status with a malformed or undecodable body, a decodable
\* body without web.results included, ends the call in the provider-failure
\* outcome (None, None): no retry of the search, no URL fetch, and no other
\* exception reaching the caller.
C12_MalformedBodyFails ==
    \A i \in DOMAIN responses :
        responses[i] \in MalformedBody =>
            /\ i = Len(responses)
            /\ SearchOver
            /\ result = "none"
            /\ requests = i
            /\ Len(sleeps) = i - 1

\* C13: the count parameter of every provider request, the first one and
\* every retry, is at most 20, whatever count was asked for.
C13_SentCountAtMost20 ==
    /\ Len(sent) = requests
    /\ \A i \in DOMAIN sent : sent[i] <= 20

\* More than 20 results were asked for and a retry has been sent.
C13_Witness ==
    /\ count > 20
    /\ Len(sent) >= 2

\* C14: without the provider credential the call fails with a configuration
\* error before any network request: no provider request, no URL fetch.
C14_NoCredentialNoNetwork ==
    ~api_key =>
        /\ requests = 0
        /\ sent = <<>>
        /\ responses = <<>>
        /\ fpc = "idle" /\ urls = <<>>
        /\ spc \in {"start", "done"}
        /\ spc = "done" => result = "config_error"

C14_Witness ==
    /\ ~api_key
    /\ spc = "done"
    /\ result = "config_error"

\* fetch_url_content has returned to the task t.
HasReturned(t) == tpc[t] \in {"delay", "done"}

LastOutcome == f_outcomes[Len(f_outcomes)]

\* C15: fetch_url_content never lets an error reach its caller: whatever the
\* attempts do (non-success status, non-HTML content type, network exception,
\* parse exception, success), it makes at most retry_count + 1 attempts and
\* returns the extracted text or None.
C15_NeverRaises ==
    \A t \in Tasks :
        /\ tpc[t] # "raised"
        /\ Len(f_outcomes) <= f_retry_count + 1
        /\ Len(f_outcomes) = f_retry_count + 1 => HasReturned(t)
        /\ HasReturned(t) =>
              /\ f_outcomes # <<>>
              /\ IF LastOutcome = "text"
                 THEN \E len \in FetchedLens : content[t] = <<len>>
                 ELSE content[t] = <<>>

\* The last attempt allowed ended in an exception, after at least one retry.
C15_Witness ==
    /\ HasReturned(1)
    /\ f_retry_count >= 1
    /\ Len(f_outcomes) = f_retry_count + 1
    /\ LastOutcome = "exception"
    /\ content[1] = <<>>

\* Every attempt so far failed, by a status or by an exception.
AllFailed == \A i \in DOMAIN f_outcomes : f_outcomes[i] \in {"not_ok", "exception"}

\* C16: when every attempt of fetch_url_content fails, by a non-success
\* status or by an exception in any mix, there are exactly retry_count + 1
\* attempts and exactly retry_count sleeps, each of the fixed delay: one
\* after every failed attempt but the last.
C16_AllFailedAttemptsAndSleeps ==
    \A t \in Tasks :
        AllFailed =>
            /\ \A i \in DOMAIN f_sleeps[t] : f_sleeps[t][i] = f_delay
            /\ IF HasReturned(t)
               THEN /\ Len(f_outcomes) = f_retry_count + 1
                    /\ Len(f_sleeps[t]) = f_retry_count
                    /\ content[t] = <<>>
               ELSE /\ Len(f_sleeps[t]) = Len(f_outcomes)
                    /\ Len(f_outcomes) = f_attempt[t] + (IF tpc[t] = "retry_sleep" THEN 1 ELSE 0)

\* All attempts failed, some by a status and some by an exception.
C16_Witness ==
    /\ HasReturned(1)
    /\ AllFailed
    /\ \E i \in DOMAIN f_outcomes : f_outcomes[i] = "not_ok"
    /\ \E i \in DOMAIN f_outcomes : f_outcomes[i] = "exception"

\* C17: a successful response whose content type is neither HTML nor XHTML
\* makes fetch_url_content return None on that attempt: no sleep and no
\* attempt follows, on whichever attempt it happens and whatever retry_count.
C17_NonHtmlReturnsAtOnce ==
    \A i \in DOMAIN f_outcomes :
        f_outcomes[i] = "non_html" =>
            /\ i = Len(f_outcomes)
            /\ \A t \in Tasks :
                  /\ HasReturned(t)
                  /\ content[t] = <<>>
                  /\ f_attempt[t] = i - 1
                  /\ Len(f_sleeps[t]) = i - 1

\* Non-HTML on a retry, with a retry still left.
C17_Witness ==
    /\ Len(f_outcomes) = 2
    /\ LastOutcome = "non_html"
    /\ f_retry_count >= 2
    /\ HasReturned(1)

\* The fetch of task t returned a non-empty text.
GotText(t) == content[t] # <<>> /\ content[t][1] > 0

TaskOrder ==
    {<<"acquire", "get">>, <<"get", "retry_sleep">>, <<"retry_sleep", "get">>,
     <<"get", "delay">>, <<"delay", "done">>}

\* C18: every task of fetch_all_url_contents goes acquire permit -> fetch ->
\* insert into the map (only if the text is non-empty) -> sleep -> release
\* permit: the permit is given back only when the sleep has ended, and the
\* sleep is taken whether or not the fetch produced content.
C18_TaskStepsInOrder ==
    [][(fpc = "running" /\ fpc' = "running") =>
        /\ \A t \in Tasks :
              /\ tpc'[t] # tpc[t] => <<tpc[t], tpc'[t]>> \in TaskOrder
              /\ (tpc[t] = "acquire" /\ tpc'[t] = "get") => semaphore' = semaphore - 1
              /\ (tpc[t] = "get" /\ tpc'[t] = "delay") =>
                    /\ semaphore' = semaphore
                    /\ (t \in writers') = GotText(t)'
                    /\ GotText(t)' => \E i \in DOMAIN url_contents' :
                          url_contents'[i] = [url |-> urls[t], text |-> content'[t][1]]
              /\ (tpc[t] = "delay" /\ tpc'[t] = "done") => semaphore' = semaphore + 1
              /\ (tpc[t] # "get" \/ tpc'[t] # "delay") =>
                    (t \in writers') = (t \in writers)
        /\ semaphore' > semaphore =>
              \E t \in Tasks : tpc[t] = "delay" /\ tpc'[t] = "done"
        /\ url_contents' # url_contents =>
              \E t \in Tasks : tpc[t] = "get" /\ tpc'[t] = "delay"
      ]_vars

\* Both a task whose fetch gave content and one whose fetch gave none have
\* slept and released.
C18_Witness ==
    /\ \E t \in Tasks : tpc[t] = "done" /\ GotText(t)
    /\ \E t \in Tasks : tpc[t] = "done" /\ content[t] = <<>>
    /\ semaphore = concurrency_limit

\* C19: fetch_all_url_contents returns only once the task of every submitted
\* URL has finished, and the keys of the map it returns are exactly the
\* submitted URLs whose fetch returned a non-empty text: no other key, no
\* empty or None value, no successful URL missing.
C19_ReturnedMapIsTheSuccesses ==
    fpc = "returned" =>
        /\ \A t \in Tasks : tpc[t] = "done"
        /\ Keys(url_contents) = {urls[t] : t \in {x \in Tasks : GotText(x)}}
        /\ \A i \in DOMAIN url_contents : url_contents[i].text > 0
        /\ \A i, j \in DOMAIN url_contents :
              url_contents[i].url = url_contents[j].url => i = j

\* A batch in which one fetch gave text, and another gave an empty page or
\* none.
C19_Witness ==
    /\ fpc = "returned"
    /\ \E t \in Tasks : GotText(t)
    /\ \E t \in Tasks : ~GotText(t)

\* C20: the writes of the fetch tasks to the shared url -> content map are
\* disjoint by key: for every list of provider results, no two tasks write the
\* same key.
C20_WritesDisjointByKey ==
    \A a, b \in writers : a # b => urls[a] # urls[b]

\* The (url, text) pairs of a dict.
Pairs(d) == {<<d[i].url, d[i].text>> : i \in DOMAIN d}

\* C21: the mapping fetch_all_url_contents returns is order-independent: it
\* is fixed by the outcomes of the individual fetches, whatever the
\* interleaving and the completion order of the tasks: its pairs are the
\* (url, text) of the tasks whose fetch gave text.
C21_MapFixedByOutcomes ==
    fpc = "returned" =>
        Pairs(url_contents) = {<<urls[t], content[t][1]>> : t \in {x \in Tasks : GotText(x)}}

\* C22: a soft failure of any of the URL fetches never aborts the batch:
\* every other submitted URL is still fetched, the text of each that succeeds
\* is in the returned map, and brave_search_with_content returns the listing
\* together with the map.
C22_SoftFailureKeepsBatch ==
    /\ \A t \in Tasks : tpc[t] # "raised"
    /\ spc = "done" =>
          /\ result = "listing_map"
          /\ fpc = "returned"
          /\ \A t \in Tasks :
                /\ tpc[t] = "done"
                /\ GotText(t) => HasKey(url_contents, urls[t])

\* One fetch gave nothing, the fetch of another URL gave text, and the call
\* has returned.
C22_Witness ==
    /\ spc = "done"
    /\ result = "listing_map"
    /\ \E a, b \in Tasks :
          /\ urls[a] # urls[b]
          /\ content[a] = <<>>
          /\ GotText(b)
          /\ HasKey(url_contents, urls[b])
          /\ ~HasKey(url_contents, urls[a])

\* The URLs of the content blocks and of the summary entries, in order.
Summary == formatted_content.summary
BlockUrls == [k \in DOMAIN Blocks |-> Blocks[k].url]
SummaryUrls == [k \in DOMAIN Summary |-> Summary[k].url]

\* C23: the content blocks of the result come in non-increasing order of
\* original content length, and the Sources Summary lists its entries in the
\* order of the content blocks, after Phase 1 alone and after Phase 2.
C23_BlocksLongestFirst ==
    DocDone =>
        /\ \A j, k \in DOMAIN Blocks :
              j < k => OriginalLen(Blocks[j].url) >= OriginalLen(Blocks[k].url)
        /\ \A j, k \in DOMAIN Summary :
              j < k => \E a, b \in DOMAIN Blocks :
                          /\ a < b
                          /\ Blocks[a].url = Summary[j].url
                          /\ Blocks[b].url = Summary[k].url

\* Phase 2 ran, the texts were fetched shortest first, and two blocks of
\* different original lengths were rendered.
C23_Witness ==
    /\ DocDone
    /\ phase2
    /\ Len(Blocks) >= 2
    /\ Len(Summary) >= 2
    /\ url_content[1].text < url_content[2].text
    /\ OriginalLen(Blocks[1].url) > OriginalLen(Blocks[2].url)

\* C30: the URLs listed in the Sources Summary are the URLs that have a
\* content block; a source Phase 2 gave no content is in neither section of
\* the artifact and is still in the returned sources list.
C30_SummaryUrlsAreBlockUrls ==
    DocDone =>
        /\ {Summary[k].url : k \in DOMAIN Summary} = Keys(Blocks)
        /\ Len(Summary) = Len(Blocks)
        /\ {sources[j].url : j \in DOMAIN sources} = Keys(url_content)
        /\ Len(sources) = Len(url_content)

\* Phase 2 stopped before the last source.
C30_Witness ==
    /\ DocDone
    /\ phase2
    /\ Len(Blocks) >= 1
    /\ \E j \in DOMAIN sources :
          /\ ~HasBlock(sources[j].url)
          /\ \A k \in DOMAIN Summary : Summary[k].url # sources[j].url

\* The provider answered the last request with a result list.
GotResultList == responses # <<>> /\ responses[Len(responses)] = "ok"

\* fetch_documentation_for_llm returned the empty result of lines 442-449.
CompleteFailure == dpc = "done" /\ url_content = <<>> /\ formatted_content = <<>>

\* C26: the caller of fetch_documentation_for_llm gets one of two outcomes,
\* the complete failure or a best-effort artifact, and the complete failure
\* only when the provider search yielded no result list: after a successful
\* search, failed fetches show only as missing content.
C26_FailureOnlyWithoutResults ==
    /\ dpc # "raised"
    /\ (spc = "done" /\ CompleteFailure) => ~GotResultList

\* The lines of a listing that open an entry: a rank number, then the title.
IsRankLine(line) == line # <<>> /\ \E k \in 1..4 : line[1] = RankToken(k)
EntryLines(md) == {i \in DOMAIN md : IsRankLine(md[i])}
Formatted == lpc \in {"again", "parse", "titles", "done"}

\* C25: the listing of a well-formed response has exactly one entry per
\* provider result, in the provider's order and numbered 1..n, with or
\* without fetched content: the k-th entry line is "k. " and the title of the
\* k-th result, followed by that result's URL and description lines.
C25_ListingHasEveryResultInOrder ==
    (Formatted /\ response.shape = "ok") =>
        LET pos == EntryLines(search_results)
        IN  /\ Cardinality(pos) = Len(response.results)
            /\ \A k \in DOMAIN response.results :
                   \E i \in pos :
                      /\ Cardinality({j \in pos : j <= i}) = k
                      /\ search_results[i] = <<RankToken(k)>> \o response.results[k].title
                      /\ search_results[i + 1] = <<"URL:", response.results[k].url>>
                      /\ search_results[i + 2] =
                             <<"Description:">> \o response.results[k].description

C25_Witness ==
    /\ lpc = "done"
    /\ include_content
    /\ response.shape = "ok"
    /\ Len(response.results) = 2
    /\ response.results[1].content = None
    /\ response.results[2].content # None
    /\ response.results[1].title # response.results[2].title

\* C28: format_search_results never raises, and returns the empty string
\* for every response whose structure is missing or invalid.
C28_InvalidDegradesToEmpty ==
    (lpc # "format" /\ response.shape \in InvalidShapes) =>
        (lpc # "raised" /\ search_results = <<>>)

C28_Witness ==
    /\ lpc = "done"
    /\ response.shape = "not_a_dict"
    /\ search_results = <<>>

C29_ParsedObjectsAreProviderResults ==
    (lpc = "titles" /\ response.shape = "ok") =>
        /\ Len(search_result_objects) = Len(response.results)
        /\ \A k \in DOMAIN response.results :
              /\ k \in DOMAIN search_result_objects
              /\ search_result_objects[k].url = <<<<response.results[k].url>>>>
              /\ search_result_objects[k].description = <<response.results[k].description>>
              /\ search_result_objects[k].title \in
                    {<<response.results[k].title>>,
                     <<<<RankToken(k)>> \o response.results[k].title>>}

\* C24: every fetched source is titled with the title of the provider
\* result of the same URL, and "Unknown Title" only when no provider result
\* has that URL.  The title is accepted with or without the rank number the
\* listing puts before it.
C24_TitleOfResultWithSameUrl ==
    (lpc = "done" /\ include_content) =>
        \A u \in DOMAIN titles :
            LET hits == {k \in DOMAIN response.results : response.results[k].url = u}
            IN  IF hits = {} THEN titles[u] = <<"Unknown Title">>
                ELSE \E k \in hits :
                        titles[u] \in {response.results[k].title,
                                       <<RankToken(k)>> \o response.results[k].title}

\* The final text of a source is its complete original text.
CompleteIn(d, src) ==
    /\ HasKey(d, src.url)
    /\ DictGet(d, src.url) = [taken |-> src.content_length, marker |-> FALSE]

\* C31: in the returned sources list the truncated flag of an entry is set
\* if and only if the final content of that source in the artifact is not
\* its complete original text, after Phase 1 alone and after Phase 2.
C31_TruncatedIffNotComplete ==
    (dpc = "done" /\ url_content # <<>>) =>
        \A i \in DOMAIN sources :
            sources[i].truncated <=> ~CompleteIn(truncated_content, sources[i])

RECURSIVE SumOfBlocks(_)
\* The characters of the final texts of a dict, markers included.
SumOfBlocks(d) ==
    IF d = <<>> THEN 0
    ELSE Head(d).text.taken + (IF Head(d).text.marker THEN MarkerLen ELSE 0)
         + SumOfBlocks(Tail(d))

\* C32: the returned total_content_length is the sum of the lengths of the
\* final texts of exactly the sources that have a content block, whether
\* Phase 1 alone or Phase 2 produced them.
C32_TotalIsSumOfBlocks ==
    (dpc = "done" /\ url_content # <<>>) =>
        total_content_length = SumOfBlocks(truncated_content)

C32_Witness ==
    /\ dpc = "done"
    /\ phase2
    /\ Len(truncated_content) = 2
    /\ Len(sources) = 3
    /\ \E i \in DOMAIN truncated_content : truncated_content[i].text.marker
    /\ \E i \in DOMAIN truncated_content : ~truncated_content[i].text.marker

\* The rank of a URL in the provider's result list.
Rank(u) == CHOOSE t \in DOMAIN urls : urls[t] = u /\ \A x \in DOMAIN urls : urls[x] = u => t <= x

\* C33: formatted_content does not depend on the order in which the fetch
\* tasks complete.  The run in which the tasks complete in rank order puts
\* sources of equal length in rank order, so every run has to: the blocks of
\* two sources of equal original length appear in rank order.
C33_ArtifactFixedByOutcomes ==
    (dpc = "done" /\ url_content # <<>>) =>
        \A i, j \in DOMAIN formatted_content.blocks :
            (/\ i < j
             /\ DictGet(url_content, formatted_content.blocks[i].url)
                   = DictGet(url_content, formatted_content.blocks[j].url))
            => Rank(formatted_content.blocks[i].url) < Rank(formatted_content.blocks[j].url)

\* The GET requests task t has sent so far.
RequestsOf(t) == IF tpc[t] = "acquire" THEN 0 ELSE f_attempt[t] + 1

RECURSIVE RequestsFor(_, _)
\* The GET requests sent for the URL u by the tasks 1..n.
RequestsFor(u, n) ==
    IF n = 0 THEN 0
    ELSE (IF urls[n] = u THEN RequestsOf(n) ELSE 0) + RequestsFor(u, n - 1)

\* C34: the retry_count given to brave_search_with_content governs the URL
\* fetches: every result URL is requested at most retry_count + 1 times.
C34_UrlRequestsWithinRetryCount ==
    \A t \in Tasks : RequestsFor(urls[t], Len(urls)) <= retry_count + 1

Retryable == {"429", "client_error"}

\* C35: with retry_count = n at most n + 1 provider requests are issued,
\* whatever mix of rate-limit responses and client errors arrives; a client
\* error with retries left is followed by a sleep of retry_delay times the
\* 1-based attempt, as a rate limit is; and the (n+1)-th failed request ends
\* the call with (None, None), without a further sleep.
C35_ClientErrorsRetriedWithinBudget ==
    /\ requests <= retry_count + 1
    /\ \A j \in DOMAIN responses :
          (responses[j] \in Retryable /\ j <= retry_count) =>
              /\ j \in DOMAIN sleeps
              /\ sleeps[j] = retry_delay * j
    /\ (/\ Len(responses) = retry_count + 1
        /\ \A j \in DOMAIN responses : responses[j] \in Retryable)
       => /\ spc = "done"
          /\ result = "none"
          /\ requests = retry_count + 1
          /\ Len(sleeps) = retry_count

\* A client error, a rate limit and a client error again exhaust retry_count = 2.
C35_Witness ==
    /\ spc = "done"
    /\ retry_count = 2
    /\ responses = <<"client_error", "429", "client_error">>
    /\ result = "none"

\* C36: under fair scheduling, with every request and sleep completing,
\* fetch_all_url_contents eventually returns for every URL list and every
\* K >= 1, and it returns only when every task has got its permit, used it
\* and released it: every task is done and all K permits are free.
C36_ReturnsWithAllPermitsFree ==
    /\ <>(fpc = "returned")
    /\ [](fpc = "returned" =>
            /\ semaphore = concurrency_limit
            /\ \A t \in Tasks : tpc[t] = "done")

\* Two tasks shared one permit, so the second had to wait, and the call returned.
C36_Witness ==
    /\ fpc = "returned"
    /\ Len(urls) = 2
    /\ concurrency_limit = 1
    /\ semaphore = 1
    /\ \E t \in Tasks : f_attempt[t] > 0

\* The id of the Codegen label of the event is not among the previous labels.
JustLabelled(body) ==
    /\ body.type = "Issue"
    /\ body.action = "update"
    /\ HasCodegen(body.labels)
    /\ \/ body.updated_from.kind = "empty"
       \/ /\ body.updated_from.kind = "labelIds"
          /\ CodegenLabelId(body.labels)[1] \notin body.updated_from.ids

\* C37: has_codegen_label returns True only for an Issue update whose
\* labels include Codegen and whose updatedFrom is empty or has a labelIds
\* list without the id of that label; for every other event the handler
\* answers skipped, and no branch is created and no agent run.
C37_TrueOnlyWhenJustLabelled ==
    wpc # "recv" =>
        /\ labelled => JustLabelled(event)
        /\ ~labelled => (/\ wpc = "replied"
                         /\ reply = "skipped"
                         /\ ~on_branch
                         /\ ~agent_started)

\* C38: whenever agent.run was started, codebase.reset() has been called at
\* least once when the handler returns.
C38_ResetAfterAgentRun ==
    (wpc = "replied" /\ agent_started) => resets >= 1

====
